---------------------------- MODULE Spec2Model ----------------------------
(***************************************************************************)
(* A model of the Hap frame codec, XCodePlugin/hap/hap.c.                  *)
(*                                                                         *)
(* Memory is one flat byte array `mem`.  A HapDecode call gets its input   *)
(* buffer at address 0 and its output buffer at arg.outputBuffer, after    *)
(* the input (directly, or after a few foreign bytes).  A read at an       *)
(* address outside `mem` is a crash.  Integers are those of an LP64 build: *)
(* uint32_t values are kept exactly, as two 16-bit limbs, wherever the     *)
(* code adds them in 32 bits; size_t quantities are naturals that saturate *)
(* at Huge, far above every buffer of the model.                           *)
(***************************************************************************)
EXTENDS Integers, Sequences, FiniteSets, TLC

VARIABLES
    pc,                          \* where the modelled call stands
    mem,                         \* the flat memory
    mem0,                        \* the memory when the call was made
    arg,                         \* the arguments of the call
    ret,                         \* the value the call returned
    outputBufferBytesUsed,       \* *outputBufferBytesUsed
    outputBufferTextureFormat,   \* *outputBufferTextureFormat
    chunk_info,                  \* the HapChunkDecodeInfo array
    bytesUsed,                   \* HapDecode's local bytesUsed
    dispatched,                  \* how many times callback() was called
    enc,                         \* the HapEncode call and what it produced
    hdr,                         \* what hap_read_section_header produced
    given                        \* what the HapDecode call was made up from

vars == <<pc, mem, mem0, arg, ret, outputBufferBytesUsed,
          outputBufferTextureFormat, chunk_info, bytesUsed, dispatched,
          enc, hdr, given>>

-----------------------------------------------------------------------------
(* Constants of hap.c *)

kHapUInt24Max == 16777215
kHapCompressorNone == 10
kHapCompressorSnappy == 11
kHapCompressorComplex == 12
kHapFormatRGBDXT1 == 11
kHapFormatRGBADXT5 == 14
kHapFormatYCoCgDXT5 == 15
kHapSectionDecodeInstructionsContainer == 1
kHapSectionChunkSecondStageCompressorTable == 2
kHapSectionChunkSizeTable == 3
kHapSectionChunkOffsetTable == 4

HapResults == {"HapResult_No_Error", "HapResult_Bad_Arguments",
               "HapResult_Bad_Frame", "HapResult_Buffer_Too_Small",
               "HapResult_Internal_Error"}

HapTextureFormats == {"HapTextureFormat_RGB_DXT1", "HapTextureFormat_RGBA_DXT5",
                      "HapTextureFormat_YCoCg_DXT5"}

HapCompressors == {"HapCompressorNone", "HapCompressorSnappy"}

(* the 0 that stands for a format that is not recognised *)
NoFormat == "0"

-----------------------------------------------------------------------------
(* uint32_t: the value hi * 2^16 + lo *)

Limb == 65536

U32(n) == [hi |-> n \div Limb, lo |-> n % Limb]

u32_add(a, b) ==
    LET lo == a.lo + b.lo
    IN  [hi |-> (a.hi + b.hi + lo \div Limb) % Limb, lo |-> lo % Limb]

u32_sub(a, b) ==
    LET borrow == IF a.lo < b.lo THEN 1 ELSE 0
    IN  [hi |-> (a.hi - b.hi - borrow + Limb) % Limb,
         lo |-> (a.lo - b.lo + Limb) % Limb]

u32_gt(a, b) == a.hi > b.hi \/ (a.hi = b.hi /\ a.lo > b.lo)

u32_lt(a, b) == u32_gt(b, a)

u32_div4(a) == [hi |-> a.hi \div 4, lo |-> ((a.hi % 4) * Limb + a.lo) \div 4]

u32_zero(a) == a.hi = 0 /\ a.lo = 0

(* size_t, saturating: every buffer of the model is far smaller than Huge *)
Huge == 1048576

size_of(a) == IF a.hi >= Huge \div Limb THEN Huge ELSE a.hi * Limb + a.lo

size_add(m, n) == IF m + n >= Huge THEN Huge ELSE m + n

(* a pointer: an address of mem, or Huge for one far outside it *)
ptr_add(p, n) == size_add(p, n)

NULL == -1

Min(m, n) == IF m < n THEN m ELSE n

-----------------------------------------------------------------------------
(* Memory *)

Mapped(m, a, n) == a >= 0 /\ a + n <= Len(m)

Bytes(m, a, n) == [k \in 1..n |-> m[a + k]]

Poke(m, a, bs) ==
    [k \in 1..Len(m) |-> IF k > a /\ k <= a + Len(bs) THEN bs[k - a] ELSE m[k]]

hap_read_3_byte_uint(m, a) == m[a + 1] + m[a + 2] * 256 + m[a + 3] * 65536

hap_read_4_byte_uint(m, a) ==
    [hi |-> m[a + 3] + m[a + 4] * 256, lo |-> m[a + 1] + m[a + 2] * 256]

hap_write_3_byte_uint(value) ==
    <<value % 256, (value \div 256) % 256, (value \div 65536) % 256>>

hap_write_4_byte_uint(value) ==
    <<value.lo % 256, value.lo \div 256, value.hi % 256, value.hi \div 256>>

hap_top_4_bits(x) == (x % 256) \div 16

hap_bottom_4_bits(x) == x % 16

(* a slip: the two nibbles the other way round *)
hap_4_bit_packed_byte_swapped(top_bits, bottom_bits) ==
    bottom_bits * 16 + (top_bits % 16)

hap_4_bit_packed_byte(top_bits, bottom_bits) == top_bits * 16 + (bottom_bits % 16)

-----------------------------------------------------------------------------
(* The section header codec *)

HeaderFits(header_length, section_length, buffer_length) ==
    ~ u32_gt(u32_add(U32(header_length), section_length), buffer_length)

(* a slip: three zero bytes are read as a section of no length, not as    *)
(* the mark of the 8-byte header                                           *)
hap_read_section_header_short(m, a, buffer_length) ==
    IF u32_lt(buffer_length, U32(4))
    THEN [result |-> "HapResult_Bad_Frame", crash |-> FALSE, header_length |-> 0,
          section_length |-> U32(0), section_type |-> 0]
    ELSE IF ~ Mapped(m, a, 4)
    THEN [result |-> "HapResult_Bad_Frame", crash |-> TRUE, header_length |-> 0,
          section_length |-> U32(0), section_type |-> 0]
    ELSE [result |-> IF HeaderFits(4, U32(hap_read_3_byte_uint(m, a)), buffer_length)
                     THEN "HapResult_No_Error"
                     ELSE "HapResult_Bad_Frame",
          crash |-> FALSE,
          header_length |-> 4,
          section_length |-> U32(hap_read_3_byte_uint(m, a)),
          section_type |-> m[a + 4]]

(* hap_read_section_header on the buffer at address a of m.  crash: the   *)
(* header lies outside the memory although buffer_length bytes were       *)
(* promised.  On a return before an output parameter is set, the 0 here   *)
(* stands for what it held.                                                *)
hap_read_section_header(m, a, buffer_length) ==
    LET none == [result |-> "HapResult_Bad_Frame", crash |-> FALSE,
                 header_length |-> 0, section_length |-> U32(0),
                 section_type |-> 0]
    IN  IF u32_lt(buffer_length, U32(4)) THEN none
        ELSE IF ~ Mapped(m, a, 4) THEN [none EXCEPT !.crash = TRUE]
        ELSE LET len3 == hap_read_3_byte_uint(m, a)
                 type == m[a + 4]
             IN  IF len3 = 0
                 THEN IF u32_lt(buffer_length, U32(8))
                      THEN none
                      ELSE IF ~ Mapped(m, a, 8) THEN [none EXCEPT !.crash = TRUE]
                      ELSE LET len4 == hap_read_4_byte_uint(m, a + 4)
                           IN  [result |-> IF HeaderFits(8, len4, buffer_length)
                                           THEN "HapResult_No_Error"
                                           ELSE "HapResult_Bad_Frame",
                                crash |-> FALSE,
                                header_length |-> 8,
                                section_length |-> len4,
                                section_type |-> type]
                 ELSE [result |-> IF HeaderFits(4, U32(len3), buffer_length)
                                  THEN "HapResult_No_Error"
                                  ELSE "HapResult_Bad_Frame",
                       crash |-> FALSE,
                       header_length |-> 4,
                       section_length |-> U32(len3),
                       section_type |-> type]

hap_write_section_header(header_length, section_length, section_type) ==
    IF header_length = 4
    THEN hap_write_3_byte_uint(section_length) \o <<section_type % 256>>
    ELSE hap_write_3_byte_uint(0) \o <<section_type % 256>>
         \o hap_write_4_byte_uint(U32(section_length))

-----------------------------------------------------------------------------
(* The external compressor.  Its stream here: one byte holding the         *)
(* uncompressed length (below 128), then (count, value) pairs, each        *)
(* standing for count >= 1 copies of value.                                *)

SnappyMaxLength == 127

snappy_max_compressed_length(n) == 32 + n + n \div 6

RECURSIVE SnappyRun(_, _)
(* the length of the run of equal bytes that x starts with *)
SnappyRun(x, k) ==
    IF k < Len(x) /\ x[k + 1] = x[1] THEN SnappyRun(x, k + 1) ELSE k

RECURSIVE SnappyPairs(_)
SnappyPairs(x) ==
    IF x = <<>> THEN <<>>
    ELSE LET run == SnappyRun(x, 1)
         IN  <<run, x[1]>> \o SnappyPairs(SubSeq(x, run + 1, Len(x)))

(* snappy_compress(input, input_length, compressed, &compressed_length) *)
snappy_compress(input, compressed_length) ==
    IF compressed_length < snappy_max_compressed_length(Len(input))
    THEN [status |-> "SNAPPY_BUFFER_TOO_SMALL", compressed |-> <<>>]
    ELSE [status |-> "SNAPPY_OK",
          compressed |-> <<Len(input)>> \o SnappyPairs(input)]

(* snappy_uncompressed_length(compressed, compressed_length, &result) *)
snappy_uncompressed_length(m, a, compressed_length) ==
    IF compressed_length = 0
    THEN [status |-> "SNAPPY_INVALID_INPUT", crash |-> FALSE, length |-> 0]
    ELSE IF ~ Mapped(m, a, 1)
    THEN [status |-> "SNAPPY_INVALID_INPUT", crash |-> TRUE, length |-> 0]
    ELSE IF m[a + 1] > SnappyMaxLength
    THEN [status |-> "SNAPPY_INVALID_INPUT", crash |-> FALSE, length |-> 0]
    ELSE [status |-> "SNAPPY_OK", crash |-> FALSE, length |-> m[a + 1]]

RECURSIVE SnappyExpand(_, _, _, _, _)
(* the pairs of m[a .. end) expanded onto acc, to at most want bytes *)
SnappyExpand(m, a, end, want, acc) ==
    IF a >= end
    THEN [status |-> IF Len(acc) = want THEN "SNAPPY_OK" ELSE "SNAPPY_INVALID_INPUT",
          crash |-> FALSE, out |-> acc]
    ELSE IF a + 2 > end
    THEN [status |-> "SNAPPY_INVALID_INPUT", crash |-> ~ Mapped(m, a, 1), out |-> acc]
    ELSE IF ~ Mapped(m, a, 2)
    THEN [status |-> "SNAPPY_INVALID_INPUT", crash |-> TRUE, out |-> acc]
    ELSE LET count == m[a + 1]
             value == m[a + 2]
             room  == want - Len(acc)
         IN  IF count = 0
             THEN [status |-> "SNAPPY_INVALID_INPUT", crash |-> FALSE, out |-> acc]
             ELSE IF count > room
             THEN [status |-> "SNAPPY_INVALID_INPUT", crash |-> FALSE,
                   out |-> acc \o [k \in 1..room |-> value]]
             ELSE SnappyExpand(m, a + 2, end, want,
                               acc \o [k \in 1..count |-> value])

(* snappy_uncompress(compressed, compressed_length, uncompressed,          *)
(* &uncompressed_length): out is what it wrote at uncompressed, also when  *)
(* it fails part way.                                                       *)
snappy_uncompress(m, a, compressed_length, uncompressed_length) ==
    LET len == snappy_uncompressed_length(m, a, compressed_length)
    IN  IF len.status # "SNAPPY_OK"
        THEN [status |-> len.status, crash |-> len.crash, out |-> <<>>, length |-> 0]
        ELSE IF uncompressed_length < len.length
        THEN [status |-> "SNAPPY_BUFFER_TOO_SMALL", crash |-> FALSE, out |-> <<>>,
              length |-> 0]
        ELSE LET r == SnappyExpand(m, a + 1, ptr_add(a, compressed_length),
                                   len.length, <<>>)
             IN  [status |-> r.status, crash |-> r.crash, out |-> r.out,
                  length |-> len.length]

-----------------------------------------------------------------------------
(* The format code table *)

hap_texture_format_constant_for_format_identifier(identifier) ==
    CASE identifier = kHapFormatRGBDXT1 -> "HapTextureFormat_RGB_DXT1"
      [] identifier = kHapFormatRGBADXT5 -> "HapTextureFormat_RGBA_DXT5"
      [] identifier = kHapFormatYCoCgDXT5 -> "HapTextureFormat_YCoCg_DXT5"
      [] OTHER -> NoFormat

hap_texture_format_identifier_for_format_constant(constant) ==
    CASE constant = "HapTextureFormat_RGB_DXT1" -> kHapFormatRGBDXT1
      [] constant = "HapTextureFormat_RGBA_DXT5" -> kHapFormatRGBADXT5
      [] constant = "HapTextureFormat_YCoCg_DXT5" -> kHapFormatYCoCgDXT5
      [] OTHER -> 0

-----------------------------------------------------------------------------
(* The encoder *)

(* a slip: room for the short header only *)
HapMaxEncodedLength_short(inputBytes) ==
    LET compressedLength == snappy_max_compressed_length(inputBytes)
    IN  (IF compressedLength < inputBytes THEN inputBytes ELSE compressedLength) + 4

HapMaxEncodedLength(inputBytes) ==
    LET compressedLength == snappy_max_compressed_length(inputBytes)
    IN  (IF compressedLength < inputBytes THEN inputBytes ELSE compressedLength) + 8

HapEncodeMaxCompressedLength(inputBufferBytes, compressor) ==
    LET maxCompressedLength ==
            IF compressor = "HapCompressorSnappy"
            THEN snappy_max_compressed_length(inputBufferBytes)
            ELSE inputBufferBytes
    IN  IF maxCompressedLength < inputBufferBytes
        THEN inputBufferBytes
        ELSE maxCompressedLength

HapEncodeHeaderLength(inputBufferBytes) ==
    IF inputBufferBytes > kHapUInt24Max THEN 8 ELSE 4

HapEncodeBadArguments(e) ==
    \/ "inputBuffer" \in e.null
    \/ e.inputBufferBytes = 0
    \/ e.textureFormat \notin HapTextureFormats
    \/ e.compressor \notin HapCompressors

HapEncodeBufferTooSmall(e) ==
    \/ e.outputBufferBytes < HapEncodeMaxCompressedLength(e.inputBufferBytes, e.compressor)
                             + HapEncodeHeaderLength(e.inputBufferBytes)
    \/ "outputBuffer" \in e.null

(* a slip: a result as long as the input is kept *)
HapEncodeStore_strict(e, snappy_status, snappy_length) ==
    LET headerLength == HapEncodeHeaderLength(e.inputBufferBytes)
        compressed == e.compressor = "HapCompressorSnappy"
        length1 == IF compressed THEN snappy_length ELSE 0
        raw == length1 = 0 \/ length1 > e.inputBufferBytes
        storedLength == IF raw THEN e.inputBufferBytes ELSE length1
        storedCompressor == IF raw THEN kHapCompressorNone ELSE kHapCompressorSnappy
        storedFormat == hap_texture_format_identifier_for_format_constant(e.textureFormat)
        Fail(result) == [result |-> result, headerLength |-> headerLength,
                         raw |-> FALSE, storedLength |-> 0, header |-> <<>>]
    IN  IF HapEncodeBadArguments(e) THEN Fail("HapResult_Bad_Arguments")
        ELSE IF HapEncodeBufferTooSmall(e) THEN Fail("HapResult_Buffer_Too_Small")
        ELSE IF compressed /\ snappy_status # "SNAPPY_OK"
        THEN Fail("HapResult_Internal_Error")
        ELSE [result |-> "HapResult_No_Error", headerLength |-> headerLength,
              raw |-> raw, storedLength |-> storedLength,
              header |-> hap_write_section_header(headerLength, storedLength,
                            hap_4_bit_packed_byte(storedCompressor, storedFormat))]

(* HapEncode but for the bytes it moves: its result, the header it       *)
(* writes and the length it stores, given what snappy_compress answers    *)
(* when called (its status, the length it stored).  raw: the input was    *)
(* copied (lines 322-327).                                                 *)
HapEncodeStore(e, snappy_status, snappy_length) ==
    LET headerLength == HapEncodeHeaderLength(e.inputBufferBytes)
        compressed == e.compressor = "HapCompressorSnappy"
        length1 == IF compressed THEN snappy_length ELSE 0
        raw == length1 = 0 \/ length1 >= e.inputBufferBytes
        storedLength == IF raw THEN e.inputBufferBytes ELSE length1
        storedCompressor == IF raw THEN kHapCompressorNone ELSE kHapCompressorSnappy
        storedFormat == hap_texture_format_identifier_for_format_constant(e.textureFormat)
        Fail(result) == [result |-> result, headerLength |-> headerLength,
                         raw |-> FALSE, storedLength |-> 0, header |-> <<>>]
    IN  IF HapEncodeBadArguments(e) THEN Fail("HapResult_Bad_Arguments")
        ELSE IF HapEncodeBufferTooSmall(e) THEN Fail("HapResult_Buffer_Too_Small")
        ELSE IF compressed /\ snappy_status # "SNAPPY_OK"
        THEN Fail("HapResult_Internal_Error")
        ELSE [result |-> "HapResult_No_Error", headerLength |-> headerLength,
              raw |-> raw, storedLength |-> storedLength,
              header |-> hap_write_section_header(headerLength, storedLength,
                            hap_4_bit_packed_byte(storedCompressor, storedFormat))]

(* what *outputBufferBytesUsed holds after lines 333-336 *)
HapEncodeBytesUsedOut(e, used0, s) ==
    IF s.result # "HapResult_No_Error" \/ "outputBufferBytesUsed" \in e.null
    THEN used0
    ELSE s.storedLength + s.headerLength

(* the output buffer after the call: snappy's bytes, over them the input  *)
(* when it is stored raw, and the header                                   *)
HapEncodeOutput(e, compressed, s) ==
    IF s.result \in {"HapResult_Bad_Arguments", "HapResult_Buffer_Too_Small"}
    THEN e.outputBuffer
    ELSE IF s.result # "HapResult_No_Error"
    THEN Poke(e.outputBuffer, s.headerLength, compressed)
    ELSE Poke(Poke(Poke(e.outputBuffer, s.headerLength, compressed),
                   s.headerLength, IF s.raw THEN e.inputBuffer ELSE <<>>),
              0, s.header)

HapEncodeCompressed(e, used0, snappy) ==
    [result |-> HapEncodeStore(e, snappy.status, Len(snappy.compressed)).result,
     outputBuffer |->
         HapEncodeOutput(e, snappy.compressed,
                         HapEncodeStore(e, snappy.status, Len(snappy.compressed))),
     outputBufferBytesUsed |->
         HapEncodeBytesUsedOut(e, used0,
                         HapEncodeStore(e, snappy.status, Len(snappy.compressed)))]

(* HapEncode.  e: the call; e.inputBuffer and e.outputBuffer are the two  *)
(* buffers' bytes, e.null the pointer arguments that are NULL, used0 what *)
(* *outputBufferBytesUsed held.                                            *)
HapEncode(e, used0) ==
    HapEncodeCompressed(e, used0,
        IF e.compressor = "HapCompressorSnappy"
           /\ ~ HapEncodeBadArguments(e) /\ ~ HapEncodeBufferTooSmall(e)
        THEN snappy_compress(e.inputBuffer, e.outputBufferBytes)
        ELSE [status |-> "SNAPPY_OK", compressed |-> <<>>])

-----------------------------------------------------------------------------
(* The decoder *)

HapDecodeBadArguments(a) ==
    a.null \cap {"inputBuffer", "callback", "outputBuffer",
                 "outputBufferTextureFormat"} # {}

(* int chunk_count, kept as its 32 bits *)
int_positive(c) == c.hi < Limb \div 2 /\ ~ u32_zero(c)

RECURSIVE HapDecodeInstructions(_, _)
(* The loop of lines 470-510 over the sections inside the Decode          *)
(* Instructions Container, from the state s of its variables.             *)
HapDecodeInstructions(m, s) ==
    IF u32_zero(s.bytes_remaining) THEN s
    ELSE LET h == hap_read_section_header(m, s.sectionStart, s.bytes_remaining)
             start == ptr_add(s.sectionStart, h.header_length)
             section_chunk_count ==
                 CASE h.section_type = kHapSectionChunkSecondStageCompressorTable
                        -> h.section_length
                   [] h.section_type = kHapSectionChunkSizeTable
                        -> u32_div4(h.section_length)
                   [] h.section_type = kHapSectionChunkOffsetTable
                        -> u32_div4(h.section_length)
                   [] OTHER -> U32(0)
             counted == ~ u32_zero(section_chunk_count)
         IN  IF h.crash THEN [s EXCEPT !.crash = TRUE]
             ELSE IF h.result # "HapResult_No_Error" THEN [s EXCEPT !.result = h.result]
             ELSE IF counted /\ ~ u32_zero(s.chunk_count)
                     /\ section_chunk_count # s.chunk_count
             THEN [s EXCEPT !.result = "HapResult_Bad_Frame"]
             ELSE HapDecodeInstructions(m,
                    [s EXCEPT
                       !.compressors =
                           IF h.section_type = kHapSectionChunkSecondStageCompressorTable
                           THEN start ELSE @,
                       !.chunk_sizes =
                           IF h.section_type = kHapSectionChunkSizeTable
                           THEN start ELSE @,
                       !.chunk_offsets =
                           IF h.section_type = kHapSectionChunkOffsetTable
                           THEN start ELSE @,
                       !.chunk_count = IF counted THEN section_chunk_count ELSE @,
                       !.sectionStart = ptr_add(start, size_of(h.section_length)),
                       !.bytes_remaining =
                           u32_sub(@, u32_add(U32(h.header_length), h.section_length))])

(* a slip: without an offset table every chunk is read from the start of  *)
(* the frame's data                                                        *)
HapChunkData_fixed(m, t, i, running_compressed_chunk_size) ==
    IF t.chunk_offsets # NULL
    THEN ptr_add(t.frame_data, size_of(hap_read_4_byte_uint(m, t.chunk_offsets + i * 4)))
    ELSE t.frame_data

(* where chunk i's compressed data starts: lines 542-549 *)
HapChunkData(m, t, i, running_compressed_chunk_size) ==
    IF t.chunk_offsets # NULL
    THEN ptr_add(t.frame_data, size_of(hap_read_4_byte_uint(m, t.chunk_offsets + i * 4)))
    ELSE ptr_add(t.frame_data, running_compressed_chunk_size)

RECURSIVE HapBuildChunks(_, _, _, _, _)
(* The loop of lines 536-580 from index i on; t: the tables found, b: the *)
(* descriptors built so far and the two running sizes.                     *)
HapBuildChunks(m, a, t, i, b) ==
    IF i >= t.chunk_count THEN b
    ELSE IF \/ ~ Mapped(m, ptr_add(t.compressors, i), 1)
            \/ ~ Mapped(m, ptr_add(t.chunk_sizes, i * 4), 4)
            \/ t.chunk_offsets # NULL /\ ~ Mapped(m, ptr_add(t.chunk_offsets, i * 4), 4)
    THEN [b EXCEPT !.crash = TRUE]
    ELSE LET compressor == m[t.compressors + i + 1]
             compressed_chunk_size ==
                 size_of(hap_read_4_byte_uint(m, t.chunk_sizes + i * 4))
             compressed_chunk_data ==
                 HapChunkData(m, t, i, b.running_compressed_chunk_size)
             len == IF compressor = kHapCompressorSnappy
                    THEN snappy_uncompressed_length(m, compressed_chunk_data,
                                                    compressed_chunk_size)
                    ELSE [status |-> "SNAPPY_OK", crash |-> FALSE,
                          length |-> compressed_chunk_size]
             chunk == [result |-> "uninitialized",
                       visited |-> FALSE,
                       compressor |-> compressor,
                       compressed_chunk_data |-> compressed_chunk_data,
                       compressed_chunk_size |-> compressed_chunk_size,
                       uncompressed_chunk_data |->
                           ptr_add(a.outputBuffer, b.running_uncompressed_chunk_size),
                       uncompressed_chunk_size |-> len.length]
         IN  IF len.crash THEN [b EXCEPT !.crash = TRUE]
             ELSE IF len.status # "SNAPPY_OK"
             THEN [b EXCEPT !.result = IF len.status = "SNAPPY_INVALID_INPUT"
                                       THEN "HapResult_Bad_Frame"
                                       ELSE "HapResult_Internal_Error"]
             ELSE HapBuildChunks(m, a, t, i + 1,
                    [b EXCEPT
                       !.chunk_info = Append(@, chunk),
                       !.running_compressed_chunk_size =
                           size_add(@, compressed_chunk_size),
                       !.running_uncompressed_chunk_size =
                           size_add(@, len.length)])

(* hap_decode_chunk(chunks, index) on the memory m, c being chunks[index] *)
hap_decode_chunk(m, c) ==
    IF c.compressor = kHapCompressorSnappy
    THEN LET r == snappy_uncompress(m, c.compressed_chunk_data,
                                    c.compressed_chunk_size,
                                    c.uncompressed_chunk_size)
         IN  [crash |-> r.crash \/ ~ Mapped(m, c.uncompressed_chunk_data, Len(r.out)),
              mem |-> Poke(m, c.uncompressed_chunk_data, r.out),
              chunk |-> [c EXCEPT
                  !.visited = TRUE,
                  !.uncompressed_chunk_size =
                      IF r.status = "SNAPPY_OK" THEN r.length ELSE @,
                  !.result = CASE r.status = "SNAPPY_INVALID_INPUT" -> "HapResult_Bad_Frame"
                               [] r.status = "SNAPPY_OK" -> "HapResult_No_Error"
                               [] OTHER -> "HapResult_Internal_Error"]]
    ELSE IF c.compressor = kHapCompressorNone
    THEN LET ok == /\ Mapped(m, c.compressed_chunk_data, c.compressed_chunk_size)
                   /\ Mapped(m, c.uncompressed_chunk_data, c.compressed_chunk_size)
         IN  [crash |-> ~ ok,
              mem |-> IF ok
                      THEN Poke(m, c.uncompressed_chunk_data,
                                Bytes(m, c.compressed_chunk_data, c.compressed_chunk_size))
                      ELSE m,
              chunk |-> [c EXCEPT !.visited = TRUE, !.result = "HapResult_No_Error"]]
    ELSE [crash |-> FALSE, mem |-> m,
          chunk |-> [c EXCEPT !.visited = TRUE, !.result = "HapResult_Bad_Frame"]]


(* a slip: the loop does not stop at the first chunk that failed, and the *)
(* last one's result is returned                                           *)
HapChunkResults_last(chunks) ==
    LET failed == {i \in 1..Len(chunks) : chunks[i].result # "HapResult_No_Error"}
    IN  IF failed = {} THEN "HapResult_No_Error"
        ELSE chunks[CHOOSE i \in failed : \A j \in failed : i >= j].result

(* the first result that is not HapResult_No_Error: lines 599-606 *)
HapChunkResults(chunks) ==
    LET failed == {i \in 1..Len(chunks) : chunks[i].result # "HapResult_No_Error"}
    IN  IF failed = {} THEN "HapResult_No_Error"
        ELSE chunks[CHOOSE i \in failed : \A j \in failed : i <= j].result

(* what *outputBufferBytesUsed holds after lines 656-659 *)
HapBytesUsedOut(a, used0, used) ==
    IF "outputBufferBytesUsed" \in a.null THEN used0 ELSE used

(* What a HapDecode call has come to when it returns, crashes or calls    *)
(* the callback: the memory, the two output parameters, the descriptors.  *)
HapOutcome(kind, result, m, format, used, chunks, bytes) ==
    [kind |-> kind, result |-> result, mem |-> m, format |-> format,
     used |-> used, chunk_info |-> chunks, bytesUsed |-> bytes]

(* a slip: the output buffer's length is not looked at *)
HapDecodeChunks_unchecked(m, a, format, used0, b) ==
    IF b.crash THEN HapOutcome("crash", "none", m, format, used0, <<>>, 0)
    ELSE IF b.result # "HapResult_No_Error"
    THEN HapOutcome("return", b.result, m, format, used0, <<>>, 0)
    ELSE HapOutcome("callback", "none", m, format, used0, b.chunk_info,
                    b.running_uncompressed_chunk_size)

(* The Complex branch, lines 433-616, up to the callback, in four parts.  *)
(* Lines 520-616, b being what the loop over the chunks built.             *)
HapDecodeChunks(m, a, format, used0, b) ==
    IF b.crash THEN HapOutcome("crash", "none", m, format, used0, <<>>, 0)
    ELSE IF b.result # "HapResult_No_Error"
    THEN HapOutcome("return", b.result, m, format, used0, <<>>, 0)
    ELSE IF b.running_uncompressed_chunk_size > a.outputBufferBytes
    THEN HapOutcome("return", "HapResult_Buffer_Too_Small", m, format, used0, <<>>, 0)
    ELSE HapOutcome("callback", "none", m, format, used0, b.chunk_info,
                    b.running_uncompressed_chunk_size)

(* Lines 512-534, s being what the loop over the sections found *)
HapDecodeTables(m, a, format, used0, frame_data, s) ==
    IF s.crash THEN HapOutcome("crash", "none", m, format, used0, <<>>, 0)
    ELSE IF s.result # "HapResult_No_Error"
    THEN HapOutcome("return", s.result, m, format, used0, <<>>, 0)
    ELSE IF s.compressors = NULL \/ s.chunk_sizes = NULL
    THEN HapOutcome("return", "HapResult_Bad_Frame", m, format, used0, <<>>, 0)
    ELSE IF ~ int_positive(s.chunk_count)
    THEN HapOutcome("return", "HapResult_No_Error", m, format,
                    HapBytesUsedOut(a, used0, 0), <<>>, 0)
    ELSE IF ~ a.malloc
    THEN HapOutcome("return", "HapResult_Internal_Error", m, format, used0, <<>>, 0)
    ELSE HapDecodeChunks(m, a, format, used0,
            HapBuildChunks(m, a,
                [compressors |-> s.compressors, chunk_sizes |-> s.chunk_sizes,
                 chunk_offsets |-> s.chunk_offsets, frame_data |-> frame_data,
                 chunk_count |-> size_of(s.chunk_count)],
                0,
                [chunk_info |-> <<>>, running_compressed_chunk_size |-> 0,
                 running_uncompressed_chunk_size |-> 0,
                 result |-> "HapResult_No_Error", crash |-> FALSE]))

(* Lines 449-468, dic being the header of the Decode Instructions Container *)
HapDecodeContainer(m, a, sectionStart, format, used0, dic) ==
    IF dic.crash THEN HapOutcome("crash", "none", m, format, used0, <<>>, 0)
    ELSE IF dic.result # "HapResult_No_Error"
    THEN HapOutcome("return", dic.result, m, format, used0, <<>>, 0)
    ELSE IF dic.section_type # kHapSectionDecodeInstructionsContainer
    THEN HapOutcome("return", "HapResult_Bad_Frame", m, format, used0, <<>>, 0)
    ELSE HapDecodeTables(m, a, format, used0,
            ptr_add(ptr_add(sectionStart, dic.header_length), size_of(dic.section_length)),
            HapDecodeInstructions(m,
                [sectionStart |-> ptr_add(sectionStart, dic.header_length),
                 bytes_remaining |-> dic.section_length,
                 chunk_count |-> U32(0),
                 compressors |-> NULL, chunk_sizes |-> NULL, chunk_offsets |-> NULL,
                 result |-> "HapResult_No_Error", crash |-> FALSE]))

HapDecodeComplex(m, a, sectionStart, format, used0) ==
    HapDecodeContainer(m, a, sectionStart, format, used0,
        hap_read_section_header(m, sectionStart, U32(a.inputBufferBytes - sectionStart)))

(* The Snappy branch, lines 617-636: r is what snappy_uncompress did *)
HapDecodeUncompressed(m, a, format, used0, r) ==
    IF r.crash THEN HapOutcome("crash", "none", m, format, used0, <<>>, 0)
    ELSE IF r.status # "SNAPPY_OK"
    THEN HapOutcome("return", "HapResult_Internal_Error",
                    Poke(m, a.outputBuffer, r.out), format, used0, <<>>, 0)
    ELSE HapOutcome("return", "HapResult_No_Error", Poke(m, a.outputBuffer, r.out),
                    format, HapBytesUsedOut(a, used0, r.length), <<>>, 0)

HapDecodeSnappyLength(m, a, sectionStart, sectionLength, format, used0, len) ==
    IF len.crash THEN HapOutcome("crash", "none", m, format, used0, <<>>, 0)
    ELSE IF len.status # "SNAPPY_OK"
    THEN HapOutcome("return", "HapResult_Internal_Error", m, format, used0, <<>>, 0)
    ELSE IF len.length > a.outputBufferBytes
    THEN HapOutcome("return", "HapResult_Buffer_Too_Small", m, format, used0, <<>>, 0)
    ELSE HapDecodeUncompressed(m, a, format, used0,
            snappy_uncompress(m, sectionStart, sectionLength, len.length))

HapDecodeSnappy(m, a, sectionStart, sectionLength, format, used0) ==
    HapDecodeSnappyLength(m, a, sectionStart, sectionLength, format, used0,
        snappy_uncompressed_length(m, sectionStart, sectionLength))

(* The None branch, lines 637-648 *)
HapDecodeNone(m, a, sectionStart, sectionLength, format, used0) ==
    IF sectionLength > a.outputBufferBytes
    THEN HapOutcome("return", "HapResult_Buffer_Too_Small", m, format, used0, <<>>, 0)
    ELSE IF ~ Mapped(m, sectionStart, sectionLength)
    THEN HapOutcome("crash", "none", m, format, used0, <<>>, 0)
    ELSE HapOutcome("return", "HapResult_No_Error",
                    Poke(m, a.outputBuffer, Bytes(m, sectionStart, sectionLength)),
                    format, HapBytesUsedOut(a, used0, sectionLength), <<>>, 0)

(* a slip: a compressor that is not known is taken for None *)
HapDecodeSection_lenient(m, a, format0, used0, top, format) ==
    IF top.crash THEN HapOutcome("crash", "none", m, format0, used0, <<>>, 0)
    ELSE IF top.result # "HapResult_No_Error"
    THEN HapOutcome("return", top.result, m, format0, used0, <<>>, 0)
    ELSE IF format = NoFormat
    THEN HapOutcome("return", "HapResult_Bad_Frame", m, format, used0, <<>>, 0)
    ELSE IF hap_top_4_bits(top.section_type) = kHapCompressorComplex
    THEN HapDecodeComplex(m, a, top.header_length, format, used0)
    ELSE IF hap_top_4_bits(top.section_type) = kHapCompressorSnappy
    THEN HapDecodeSnappy(m, a, top.header_length, size_of(top.section_length),
                         format, used0)
    ELSE HapDecodeNone(m, a, top.header_length, size_of(top.section_length),
                       format, used0)

(* Lines 411-652, top being the header of the top-level section *)
HapDecodeSection(m, a, format0, used0, top, format) ==
    IF top.crash THEN HapOutcome("crash", "none", m, format0, used0, <<>>, 0)
    ELSE IF top.result # "HapResult_No_Error"
    THEN HapOutcome("return", top.result, m, format0, used0, <<>>, 0)
    ELSE IF format = NoFormat
    THEN HapOutcome("return", "HapResult_Bad_Frame", m, format, used0, <<>>, 0)
    ELSE IF hap_top_4_bits(top.section_type) = kHapCompressorComplex
    THEN HapDecodeComplex(m, a, top.header_length, format, used0)
    ELSE IF hap_top_4_bits(top.section_type) = kHapCompressorSnappy
    THEN HapDecodeSnappy(m, a, top.header_length, size_of(top.section_length),
                         format, used0)
    ELSE IF hap_top_4_bits(top.section_type) = kHapCompressorNone
    THEN HapDecodeNone(m, a, top.header_length, size_of(top.section_length),
                       format, used0)
    ELSE HapOutcome("return", "HapResult_Bad_Frame", m, format, used0, <<>>, 0)

HapDecodeFormat(m, a, format0, used0, top) ==
    HapDecodeSection(m, a, format0, used0, top,
        hap_texture_format_constant_for_format_identifier(
            hap_bottom_4_bits(top.section_type)))

(* HapDecode up to its return or its call of the callback.  m: the memory, *)
(* a: the arguments, format0 and used0: what the two output parameters     *)
(* held.                                                                    *)
HapDecode(m, a, format0, used0) ==
    IF HapDecodeBadArguments(a)
    THEN HapOutcome("return", "HapResult_Bad_Arguments", m, format0, used0, <<>>, 0)
    ELSE HapDecodeFormat(m, a, format0, used0,
            hap_read_section_header(m, 0, U32(a.inputBufferBytes)))

(* HapDecode after the callback returned: lines 596-661 *)
HapDecodeAfterCallback(a, chunks, used0, bytes) ==
    LET result == HapChunkResults(chunks)
    IN  [result |-> result,
         used |-> IF result = "HapResult_No_Error"
                  THEN HapBytesUsedOut(a, used0, bytes)
                  ELSE used0]

-----------------------------------------------------------------------------
(* The calls as steps *)

Untouched == 0 - 1

Fill(n, byte) == [k \in 1..n |-> byte]

(* before a call of HapDecode: nothing returned, nothing written *)
NotCalled == /\ ret = "none"
             /\ outputBufferBytesUsed = Untouched
             /\ outputBufferTextureFormat = "untouched"
             /\ chunk_info = <<>>
             /\ bytesUsed = 0
             /\ dispatched = 0

Idle == /\ mem = <<>> /\ mem0 = <<>>
        /\ arg = [inputBufferBytes |-> 0, outputBuffer |-> 0, outputBufferBytes |-> 0,
                  null |-> {}, malloc |-> TRUE]
        /\ NotCalled

NoEncode == enc = [result |-> "none"]

NoHeader == hdr = [result |-> "none"]

NoFrame == given = [kind |-> "none"]

(* A call of HapEncode *)
HapEncodeCall ==
    /\ pc = "encode"
    /\ \E r \in {HapEncode(enc, enc.outputBufferBytesUsed)} :
           enc' = [enc EXCEPT !.result = r.result,
                              !.outputBuffer = r.outputBuffer,
                              !.outputBufferBytesUsed = r.outputBufferBytesUsed]
    /\ pc' = "encoded"
    /\ UNCHANGED <<mem, mem0, arg, ret, outputBufferBytesUsed,
                   outputBufferTextureFormat, chunk_info, bytesUsed, dispatched, hdr,
                   given>>

(* A call of HapDecode, to its return or to its call of the callback *)
HapDecodeCall ==
    /\ pc = "decode"
    /\ \E r \in {HapDecode(mem, arg, outputBufferTextureFormat, outputBufferBytesUsed)} :
           /\ pc' = CASE r.kind = "return" -> "returned"
                      [] r.kind = "crash" -> "crashed"
                      [] r.kind = "callback" -> "callback"
           /\ ret' = r.result
           /\ mem' = r.mem
           /\ outputBufferTextureFormat' = r.format
           /\ outputBufferBytesUsed' = r.used
           /\ chunk_info' = r.chunk_info
           /\ bytesUsed' = r.bytesUsed
           /\ dispatched' = IF r.kind = "callback" THEN dispatched + 1 ELSE dispatched
    /\ UNCHANGED <<mem0, arg, enc, hdr, given>>

(* The dispatcher runs the work function on a chunk it has not visited *)
HapDecodeWork(i) ==
    /\ pc = "callback"
    /\ ~ chunk_info[i].visited
    /\ \E r \in {hap_decode_chunk(mem, chunk_info[i])} :
           /\ pc' = IF r.crash THEN "crashed" ELSE "callback"
           /\ mem' = r.mem
           /\ chunk_info' = [chunk_info EXCEPT ![i] = r.chunk]
    /\ UNCHANGED <<mem0, arg, ret, outputBufferBytesUsed, outputBufferTextureFormat,
                   bytesUsed, dispatched, enc, hdr, given>>

(* The dispatcher returns, having visited every chunk *)
HapDecodeReturn ==
    /\ pc = "callback"
    /\ \A i \in 1..Len(chunk_info) : chunk_info[i].visited
    /\ \E r \in {HapDecodeAfterCallback(arg, chunk_info, outputBufferBytesUsed,
                                           bytesUsed)} :
           /\ ret' = r.result
           /\ outputBufferBytesUsed' = r.used
    /\ pc' = "returned"
    /\ UNCHANGED <<mem, mem0, arg, outputBufferTextureFormat, chunk_info, bytesUsed,
                   dispatched, enc, hdr, given>>

-----------------------------------------------------------------------------
(* Encoding a buffer and decoding the frame *)

MaxInput == 4

DataBytes == {5, 6}

Inputs == UNION {[1..n -> DataBytes] : n \in 0..MaxInput}

EncodeCapacities(n) ==
    {n + 3, n + 4, snappy_max_compressed_length(n) + 3,
     snappy_max_compressed_length(n) + 4, HapMaxEncodedLength(n)}

EncodeNulls == {{}, {"inputBuffer"}, {"outputBuffer"}, {"outputBufferBytesUsed"}}

InitCodec ==
    /\ pc = "encode"
    /\ Idle
    /\ NoHeader
    /\ NoFrame
    /\ \E x \in Inputs, f \in HapTextureFormats \cup {"HapTextureFormat_Other"},
          c \in HapCompressors \cup {"HapCompressorOther"}, n \in EncodeNulls :
         \E cap \in EncodeCapacities(Len(x)) :
            enc = [inputBuffer |-> x, inputBufferBytes |-> Len(x),
                   textureFormat |-> f, compressor |-> c,
                   outputBuffer |-> Fill(cap, 0), outputBufferBytes |-> cap,
                   null |-> n, outputBufferBytesUsed |-> Untouched,
                   result |-> "none"]

(* The caller hands the frame HapEncode wrote to HapDecode, with an       *)
(* output buffer of cap bytes after it.                                    *)
HapDecodeEncoded(cap) ==
    /\ pc = "encoded"
    /\ enc.result = "HapResult_No_Error"
    /\ enc.outputBufferBytesUsed # Untouched
    /\ mem' = SubSeq(enc.outputBuffer, 1, enc.outputBufferBytesUsed) \o Fill(cap, 238)
    /\ mem0' = mem'
    /\ arg' = [inputBufferBytes |-> enc.outputBufferBytesUsed,
               outputBuffer |-> enc.outputBufferBytesUsed,
               outputBufferBytes |-> cap, null |-> {}, malloc |-> TRUE]
    /\ pc' = "decode"
    /\ UNCHANGED <<ret, outputBufferBytesUsed, outputBufferTextureFormat, chunk_info,
                   bytesUsed, dispatched, enc, hdr, given>>

NextCodec ==
    \/ HapEncodeCall
    \/ \E cap \in (enc.inputBufferBytes - 1)..(enc.inputBufferBytes + 1) :
          cap >= 0 /\ HapDecodeEncoded(cap)
    \/ HapDecodeCall

SpecCodec == InitCodec /\ [][NextCodec]_vars


(* C1: a buffer that HapEncode encoded and HapDecode decoded into a       *)
(* destination at least as long comes back whole: HapDecode returns        *)
(* No_Error, reports the input's length, has written the input's bytes and *)
(* nothing else, and reports the format HapEncode was given.               *)
RoundTrip ==
    (/\ enc.result = "HapResult_No_Error"
     /\ pc \in {"returned", "crashed", "callback"}
     /\ arg.outputBufferBytes >= enc.inputBufferBytes)
    => /\ pc = "returned"
       /\ ret = "HapResult_No_Error"
       /\ outputBufferBytesUsed = enc.inputBufferBytes
       /\ mem = Poke(mem0, arg.outputBuffer, enc.inputBuffer)
       /\ outputBufferTextureFormat = enc.textureFormat

RoundTripWitness ==
    /\ enc.result = "HapResult_No_Error"
    /\ pc = "returned"
    /\ ret = "HapResult_No_Error"
    /\ enc.compressor = "HapCompressorSnappy"
    /\ hap_top_4_bits(mem[4]) = kHapCompressorSnappy
    /\ arg.outputBufferBytes > enc.inputBufferBytes

(* what the compressor answers for the input of the call *)
EncSnappyLength == Len(snappy_compress(enc.inputBuffer, enc.outputBufferBytes).compressed)

EncFrameHeader == hap_read_section_header(enc.outputBuffer, 0, U32(enc.outputBufferBytes))

(* C2: when HapEncode succeeds and the preference is None, or the         *)
(* compressor stored nothing or no less than the input, the frame has the *)
(* compressor None, the input's length and the input's bytes, and the     *)
(* bytes reported are the input's length plus the header's; and a frame   *)
(* with the compressor Snappy holds more than 0 and less than the input's *)
(* length.                                                                 *)
StoreUncompressedFallback ==
    (pc = "encoded" /\ enc.result = "HapResult_No_Error")
    => /\ (\/ enc.compressor = "HapCompressorNone"
           \/ EncSnappyLength = 0
           \/ EncSnappyLength >= enc.inputBufferBytes)
          => /\ EncFrameHeader.result = "HapResult_No_Error"
             /\ hap_top_4_bits(EncFrameHeader.section_type) = kHapCompressorNone
             /\ EncFrameHeader.section_length = U32(enc.inputBufferBytes)
             /\ Bytes(enc.outputBuffer, EncFrameHeader.header_length,
                      enc.inputBufferBytes) = enc.inputBuffer
             /\ "outputBufferBytesUsed" \notin enc.null
                => enc.outputBufferBytesUsed
                     = enc.inputBufferBytes + EncFrameHeader.header_length
       /\ hap_top_4_bits(EncFrameHeader.section_type) = kHapCompressorSnappy
          => /\ u32_gt(EncFrameHeader.section_length, U32(0))
             /\ u32_lt(EncFrameHeader.section_length, U32(enc.inputBufferBytes))

StoreUncompressedFallbackWitness ==
    /\ pc = "encoded"
    /\ enc.result = "HapResult_No_Error"
    /\ enc.compressor = "HapCompressorSnappy"
    /\ EncSnappyLength = enc.inputBufferBytes
    /\ hap_top_4_bits(EncFrameHeader.section_type) = kHapCompressorNone

-----------------------------------------------------------------------------
(* The lengths of HapEncode, for inputs of any length *)

MaxSmallLength == 3

MaxLengthStep == 2

EncodeLengths ==
    (0..MaxSmallLength)
    \cup {kHapUInt24Max + d - MaxLengthStep : d \in 0..(2 * MaxLengthStep)}

(* the lengths the compressor may answer with for n bytes of input *)
SnappyLengths(n) ==
    {k \in {0, 1, n - 1, n, n + 1, snappy_max_compressed_length(n)} : k >= 0}

InitLengths ==
    /\ pc = "encode lengths"
    /\ Idle
    /\ NoHeader
    /\ NoFrame
    /\ \E n \in EncodeLengths, f \in HapTextureFormats \cup {"HapTextureFormat_Other"},
          c \in HapCompressors \cup {"HapCompressorOther"},
          out \in {{}, {"outputBuffer"}} :
         \E cap \in {HapMaxEncodedLength(n) + d - 1 : d \in 0..2}
                    \cup {n + HapEncodeHeaderLength(n) + d - 1 : d \in 0..1},
            st \in {"SNAPPY_OK", "SNAPPY_INVALID_INPUT"}, len \in SnappyLengths(n) :
            enc = [inputBufferBytes |-> n, textureFormat |-> f, compressor |-> c,
                   outputBufferBytes |-> cap, null |-> out,
                   snappy_status |-> st, snappy_length |-> len,
                   outputBufferBytesUsed |-> Untouched, result |-> "none"]

(* A call of HapEncode, its buffers left out; the header it wrote is read *)
(* back as the header of a buffer of the length it reported.               *)
HapEncodeLengths ==
    /\ pc = "encode lengths"
    /\ \E s \in {HapEncodeStore(enc, enc.snappy_status, enc.snappy_length)} :
         /\ enc' = [enc EXCEPT !.result = s.result,
                               !.outputBufferBytesUsed =
                                   HapEncodeBytesUsedOut(enc, Untouched, s)]
         /\ hdr' = IF s.result = "HapResult_No_Error"
                   THEN hap_read_section_header(s.header, 0,
                                                U32(s.storedLength + s.headerLength))
                   ELSE hdr
    /\ pc' = "encoded lengths"
    /\ UNCHANGED <<mem, mem0, arg, ret, outputBufferBytesUsed,
                   outputBufferTextureFormat, chunk_info, bytesUsed, dispatched,
                   given>>

SpecLengths == InitLengths /\ [][HapEncodeLengths]_vars

(* C9: HapEncode, given an input of n > 0 bytes, a format and a           *)
(* compressor it knows and an output buffer of at least                    *)
(* HapMaxEncodedLength(n) bytes, does not return Buffer_Too_Small, and     *)
(* reports at most HapMaxEncodedLength(n) bytes when it succeeds;          *)
(* HapMaxEncodedLength(n) is at least n + 8 and at least the compressor's  *)
(* worst case plus the header HapEncode chooses.                           *)
MaxEncodedLengthSuffices ==
    (/\ pc = "encoded lengths"
     /\ enc.inputBufferBytes > 0
     /\ enc.textureFormat \in HapTextureFormats
     /\ enc.compressor \in HapCompressors
     /\ "outputBuffer" \notin enc.null
     /\ enc.outputBufferBytes >= HapMaxEncodedLength(enc.inputBufferBytes))
    => /\ enc.result # "HapResult_Buffer_Too_Small"
       /\ enc.result = "HapResult_No_Error"
          => enc.outputBufferBytesUsed <= HapMaxEncodedLength(enc.inputBufferBytes)
       /\ HapMaxEncodedLength(enc.inputBufferBytes) >= enc.inputBufferBytes + 8
       /\ HapMaxEncodedLength(enc.inputBufferBytes)
            >= snappy_max_compressed_length(enc.inputBufferBytes)
               + HapEncodeHeaderLength(enc.inputBufferBytes)

MaxEncodedLengthSufficesWitness ==
    /\ pc = "encoded lengths"
    /\ enc.inputBufferBytes > kHapUInt24Max
    /\ enc.compressor = "HapCompressorSnappy"
    /\ enc.outputBufferBytes = HapMaxEncodedLength(enc.inputBufferBytes)
    /\ enc.result = "HapResult_No_Error"
    /\ hdr.result = "HapResult_No_Error"
    /\ hdr.header_length = 8

-----------------------------------------------------------------------------
(* hap_read_section_header on buffers of any content *)

MaxHeaderBuffer == 10

HeaderLengthBytes == {0, 1, 5, 255}

HeaderLongBytes == {0, 1, 248, 252, 255}

HeaderBytes ==
    {<<b0, b1, b2, t, b4, b5, b6, b7>> :
        b0 \in HeaderLengthBytes, b1 \in {0, 1}, b2 \in {0, 1}, t \in {1, 171},
        b4 \in HeaderLongBytes, b5 \in {0, 255}, b6 \in {0, 255}, b7 \in {0, 255}}

InitHeader ==
    /\ pc = "header"
    /\ NotCalled
    /\ NoEncode
    /\ NoHeader
    /\ NoFrame
    /\ \E h \in HeaderBytes, n \in 0..MaxHeaderBuffer :
          /\ mem = SubSeq(h \o Fill(MaxHeaderBuffer, 0), 1, n)
          /\ mem0 = mem
          /\ arg = [inputBufferBytes |-> n, outputBuffer |-> n, outputBufferBytes |-> 0,
                    null |-> {}, malloc |-> TRUE]

(* A call of hap_read_section_header on the whole buffer *)
HapReadSectionHeaderCall ==
    /\ pc = "header"
    /\ hdr' = hap_read_section_header(mem, 0, U32(arg.inputBufferBytes))
    /\ pc' = "header read"
    /\ UNCHANGED <<mem, mem0, arg, ret, outputBufferBytesUsed,
                   outputBufferTextureFormat, chunk_info, bytesUsed, dispatched, enc,
                   given>>

SpecHeader == InitHeader /\ [][HapReadSectionHeaderCall]_vars

(* header_length + section_length > buffer_length, the sum not cut to 32 bits *)
SectionOverruns(header_length, section_length, buffer_length) ==
    LET lo == section_length.lo + header_length
        hi == section_length.hi + lo \div Limb
    IN  hi > buffer_length \div Limb
        \/ (hi = buffer_length \div Limb /\ lo % Limb > buffer_length % Limb)

(* C6: hap_read_section_header returns Bad_Frame whenever the section it  *)
(* read, with its header, is longer than the buffer.                       *)
SectionOverrunRejected ==
    (/\ pc = "header read"
     /\ hdr.header_length \in {4, 8}
     /\ SectionOverruns(hdr.header_length, hdr.section_length, arg.inputBufferBytes))
    => hdr.result = "HapResult_Bad_Frame"

-----------------------------------------------------------------------------
(* Frames for HapDecode, well made and not *)

MaxChunks == 2

WildOffset == 70000

RECURSIVE Flatten(_)
Flatten(ss) == IF ss = <<>> THEN <<>> ELSE Head(ss) \o Flatten(Tail(ss))

Reverse(ss) == [k \in 1..Len(ss) |-> ss[Len(ss) + 1 - k]]

(* the chunks frames are made of: the code in the compressor table, the   *)
(* stored bytes, the length they stand for                                 *)
HapChunk(kind) ==
    CASE kind = "raw2"    -> [compressor |-> kHapCompressorNone, data |-> <<1, 2>>,
                              length |-> 2]
      [] kind = "raw1"    -> [compressor |-> kHapCompressorNone, data |-> <<3>>,
                              length |-> 1]
      [] kind = "snappy"  -> [compressor |-> kHapCompressorSnappy, data |-> <<3, 3, 7>>,
                              length |-> 3]
      [] kind = "corrupt" -> [compressor |-> kHapCompressorSnappy, data |-> <<2, 1, 7>>,
                              length |-> 2]
      [] kind = "badlen"  -> [compressor |-> kHapCompressorSnappy, data |-> <<200>>,
                              length |-> 0]
      [] kind = "other"   -> [compressor |-> 13, data |-> <<4>>, length |-> 1]

ChunkKinds == {"raw2", "raw1", "snappy", "corrupt", "badlen", "other"}

ChunkLists(kinds) == UNION {[1..n -> kinds] : n \in 0..MaxChunks}

ChunkData(chunks) == [i \in 1..Len(chunks) |-> HapChunk(chunks[i]).data]

RECURSIVE ChunkTotal(_)
(* the total uncompressed size of the chunks *)
ChunkTotal(chunks) ==
    IF chunks = <<>> THEN 0
    ELSE HapChunk(Head(chunks)).length + ChunkTotal(Tail(chunks))

(* the i-th entry (from 1) of the size table of the frame f *)
StatedSize(f, i) ==
    IF i <= Len(f.chunks)
    THEN Len(HapChunk(f.chunks[i]).data) + (IF i = 1 THEN f.bump ELSE 0)
    ELSE 1

RECURSIVE StatedOffset(_, _)
(* the sum of the sizes stated for the chunks before the i-th *)
StatedOffset(f, i) ==
    IF i = 1 THEN 0 ELSE StatedOffset(f, i - 1) + StatedSize(f, i - 1)

FrameData(f) ==
    IF f.mode = "reversed" THEN Flatten(Reverse(ChunkData(f.chunks)))
    ELSE Flatten(ChunkData(f.chunks))

(* the i-th entry (from 1) of the offset table of the frame f *)
StatedChunkOffset(f, i) ==
    CASE f.mode = "contiguous" -> StatedOffset(f, i)
      [] f.mode = "reversed" ->
            Len(Flatten(SubSeq(ChunkData(f.chunks), i + 1, Len(f.chunks))))
      [] f.mode = "past" -> IF i = 1 THEN 0 ELSE Len(FrameData(f)) + f.pad
      [] f.mode = "wild" -> WildOffset

LE32(n) == hap_write_4_byte_uint(U32(n))

(* a section; one without content has the 8-byte header, since a 3-byte   *)
(* length of 0 announces it                                                *)
Section(type, content) ==
    hap_write_section_header(IF content = <<>> THEN 8 ELSE 4, Len(content), type)
    \o content

Table(f, letter) ==
    CASE letter = "C" ->
            Section(kHapSectionChunkSecondStageCompressorTable,
                    [i \in 1..f.compressors |->
                        IF i <= Len(f.chunks) THEN HapChunk(f.chunks[i]).compressor
                        ELSE kHapCompressorNone])
      [] letter = "S" ->
            Section(kHapSectionChunkSizeTable,
                    Flatten([i \in 1..f.sizes |-> LE32(StatedSize(f, i))])
                    \o [k \in 1..f.slack |-> 0])
      [] letter = "O" ->
            Section(kHapSectionChunkOffsetTable,
                    Flatten([i \in 1..Len(f.chunks) |-> LE32(StatedChunkOffset(f, i))]))
      [] OTHER -> Section(9, <<0>>)

FrameBody(f) ==
    IF f.kind = "complex"
    THEN Section(kHapSectionDecodeInstructionsContainer,
                 Flatten([k \in 1..Len(f.layout) |-> Table(f, f.layout[k])]))
         \o FrameData(f)
    ELSE f.payload

(* the bytes of the frame f *)
FrameBytes(f) ==
    IF f.kind = "bytes" THEN f.payload
    ELSE hap_write_section_header(4, Len(FrameBody(f)) + f.declared, f.type)
         \o FrameBody(f)

(* the memory of a call on f: the frame, f.pad foreign bytes, the output  *)
(* buffer                                                                  *)
FrameMemory(f) ==
    FrameBytes(f) \o [k \in 1..f.pad |-> 1] \o [k \in 1..f.capacity |-> f.fill]

FrameArguments(f) ==
    [inputBufferBytes |-> Len(FrameBytes(f)) - f.cut,
     outputBuffer |-> Len(FrameBytes(f)) + f.pad,
     outputBufferBytes |-> f.capacity,
     null |-> f.null, malloc |-> f.malloc]

TypeByte(compressor) == hap_4_bit_packed_byte(compressor, kHapFormatRGBDXT1)

PlainFrame ==
    [kind |-> "plain", type |-> TypeByte(kHapCompressorNone), payload |-> <<1, 2>>,
     chunks |-> <<>>, layout |-> <<>>, compressors |-> 0, sizes |-> 0, slack |-> 0,
     mode |-> "contiguous", bump |-> 0, declared |-> 0, cut |-> 0, pad |-> 0,
     capacity |-> 2, fill |-> 238, null |-> {}, malloc |-> TRUE]

ComplexFrame(chunks, layout) ==
    [PlainFrame EXCEPT !.kind = "complex", !.type = TypeByte(kHapCompressorComplex),
                       !.payload = <<>>, !.chunks = chunks, !.layout = layout,
                       !.compressors = Len(chunks), !.sizes = Len(chunks),
                       !.capacity = ChunkTotal(chunks)]

Around(n) == {k \in {n - 1, n, n + 1} : k >= 0}

(* frames with their tables in order, of chunks of every kind *)
WholeFrames ==
    {[ComplexFrame(chunks, layout) EXCEPT !.capacity = cap] :
        chunks \in ChunkLists(ChunkKinds),
        layout \in {<<"C", "S">>, <<"S", "C">>, <<"C", "S", "O">>},
        cap \in 0..(2 * MaxChunks + 1)}

(* frames whose tables are missing, doubled up with others, or disagree   *)
TableFrames ==
    {[ComplexFrame(chunks, layout) EXCEPT !.compressors = n, !.sizes = m,
                                          !.slack = slack,
                                          !.capacity = ChunkTotal(chunks) + 1] :
        chunks \in ChunkLists({"raw2", "snappy"}),
        layout \in {<<"C", "S">>, <<"S", "C">>, <<"C", "S", "O">>, <<"O", "S", "C">>,
                    <<"C", "U", "S">>, <<"C">>, <<"S">>, <<"C", "O">>},
        n \in 0..(MaxChunks + 1), m \in 0..(MaxChunks + 1), slack \in {0, 3}}

(* frames whose sizes and offsets point at other bytes than their chunks' *)
SpanFrames ==
    {[ComplexFrame(chunks, layout) EXCEPT !.mode = mode, !.bump = bump, !.pad = pad,
                                          !.capacity = ChunkTotal(chunks) + bump + more,
                                          !.fill = fill] :
        chunks \in ChunkLists({"raw2", "snappy", "corrupt"}),
        layout \in {<<"C", "S">>, <<"C", "S", "O">>},
        mode \in {"contiguous", "reversed", "past", "wild"},
        bump \in {0, 1}, pad \in {0, 1}, more \in {0, 1}, fill \in {238, 1}}

TypeNibbles == {0, 9, kHapCompressorNone, kHapCompressorSnappy, kHapCompressorComplex,
                13, kHapFormatRGBADXT5, kHapFormatYCoCgDXT5}

(* frames of every type byte *)
TypeFrames ==
    {[PlainFrame EXCEPT !.type = hap_4_bit_packed_byte(c, t), !.payload = payload,
                        !.declared = declared, !.capacity = cap] :
        c \in TypeNibbles, t \in TypeNibbles,
        payload \in {<<1, 2>>, <<3, 3, 7>>, <<2, 1, 7>>, <<200, 1>>,
                     FrameBody(ComplexFrame(<<"raw2", "snappy">>, <<"C", "S">>))},
        declared \in {0 - 1, 0, 1}, cap \in {1, 3, 5}}

(* calls that lack an argument, or memory for the descriptors *)
CallFrames ==
    {[f EXCEPT !.null = null, !.malloc = malloc] :
        f \in {PlainFrame,
               [PlainFrame EXCEPT !.type = TypeByte(kHapCompressorSnappy),
                                  !.payload = <<2, 2, 7>>],
               [PlainFrame EXCEPT !.type = 0],
               [PlainFrame EXCEPT !.declared = 1],
               ComplexFrame(<<"raw2", "snappy">>, <<"C", "S">>),
               ComplexFrame(<<"raw2", "corrupt">>, <<"C", "S">>),
               ComplexFrame(<<"raw2", "raw1">>, <<"C">>)},
        null \in {{}, {"inputBuffer"}, {"callback"}, {"outputBuffer"},
                  {"outputBufferTextureFormat"}, {"outputBufferBytesUsed"}},
        malloc \in BOOLEAN}

(* frames cut short *)
CutFrames ==
    {[f EXCEPT !.cut = cut] :
        f \in {PlainFrame, ComplexFrame(<<"raw2", "snappy">>, <<"C", "S", "O">>)},
        cut \in 1..4 * (MaxChunks + 1)}

(* frames whose headers state lengths near 2^32 *)
ByteFrames ==
    {[PlainFrame EXCEPT !.kind = "bytes", !.payload = payload, !.capacity = cap] :
        payload \in
           {<<0, 0, 0, t, 252, 255, 255, 255>> :
               t \in {TypeByte(kHapCompressorNone), TypeByte(kHapCompressorSnappy),
                      TypeByte(kHapCompressorComplex), 0}}
           \cup {<<8, 0, 0, TypeByte(kHapCompressorComplex),
                   0, 0, 0, kHapSectionDecodeInstructionsContainer, b, 255, 255, 255>> :
               b \in {248, 252}}
           \cup {<<13, 0, 0, TypeByte(kHapCompressorComplex),
                   9, 0, 0, kHapSectionDecodeInstructionsContainer,
                   1, 0, 0, kHapSectionChunkSecondStageCompressorTable,
                   kHapCompressorNone,
                   0, 0, 0, kHapSectionChunkSizeTable>>,
                 <<17, 0, 0, TypeByte(kHapCompressorComplex),
                   13, 0, 0, kHapSectionDecodeInstructionsContainer,
                   1, 0, 0, kHapSectionChunkSecondStageCompressorTable,
                   kHapCompressorNone,
                   0, 0, 0, kHapSectionChunkSizeTable, 252, 255, 255, 255>>},
        cap \in {0, 2}}

Frames == WholeFrames \cup TableFrames \cup SpanFrames \cup TypeFrames
          \cup CallFrames \cup CutFrames \cup ByteFrames

InitDecode ==
    /\ pc = "decode"
    /\ NotCalled
    /\ NoEncode
    /\ NoHeader
    /\ \E f \in Frames :
          /\ given = f
          /\ mem = FrameMemory(f)
          /\ mem0 = mem
          /\ arg = FrameArguments(f)

NextDecode ==
    \/ HapDecodeCall
    \/ \E i \in 1..Len(chunk_info) : HapDecodeWork(i)
    \/ HapDecodeReturn

SpecDecode == InitDecode /\ [][NextDecode]_vars

-----------------------------------------------------------------------------
(* A whole call of HapDecode, its callback doing the chunks one after the *)
(* other from the first                                                    *)

RECURSIVE HapDecodeInOrder(_, _, _)
(* the work function on the chunks from the i-th (from 1) on *)
HapDecodeInOrder(m, chunks, i) ==
    IF i > Len(chunks) THEN [crash |-> FALSE, mem |-> m, chunk_info |-> chunks]
    ELSE IF hap_decode_chunk(m, chunks[i]).crash
    THEN [crash |-> TRUE, mem |-> m, chunk_info |-> chunks]
    ELSE HapDecodeInOrder(hap_decode_chunk(m, chunks[i]).mem,
                          [chunks EXCEPT ![i] = hap_decode_chunk(m, chunks[i]).chunk],
                          i + 1)

(* the call from the callback's return on: w is what the callback did *)
HapDecodeFinish(a, r, w) ==
    IF w.crash THEN [kind |-> "crash", result |-> "none", mem |-> w.mem,
                     format |-> r.format, used |-> r.used]
    ELSE [kind |-> "return",
          result |-> HapDecodeAfterCallback(a, w.chunk_info, r.used, r.bytesUsed).result,
          mem |-> w.mem, format |-> r.format,
          used |-> HapDecodeAfterCallback(a, w.chunk_info, r.used, r.bytesUsed).used]

(* the call from the point r where HapDecode returns or calls back *)
HapDecodeDispatch(a, r) ==
    IF r.kind # "callback"
    THEN [kind |-> r.kind, result |-> r.result, mem |-> r.mem, format |-> r.format,
          used |-> r.used]
    ELSE HapDecodeFinish(a, r, HapDecodeInOrder(r.mem, r.chunk_info, 1))

HapDecodeRun(m, a, format0, used0) ==
    HapDecodeDispatch(a, HapDecode(m, a, format0, used0))

(* the output buffer of the call, as it stands in the memory m *)
Destination(m) == Bytes(m, arg.outputBuffer, arg.outputBufferBytes)

(* C3: a call of HapDecode whose callback ran the work function once on   *)
(* every chunk, in whatever order, ends as the call whose callback runs   *)
(* it on the chunks in order: the same status, the same bytes reported,   *)
(* the same output buffer.                                                 *)
DispatchOrderIndependent ==
    (dispatched = 1 /\ pc \in {"returned", "crashed"})
    => \E r \in {HapDecodeRun(mem0, arg, "untouched", Untouched)} :
          /\ pc = "crashed" <=> r.kind = "crash"
          /\ pc = "returned"
             => /\ ret = r.result
                /\ outputBufferBytesUsed = r.used
                /\ Destination(mem) = Destination(r.mem)

-----------------------------------------------------------------------------
(* What the frame of the call is, told from what it was made up from *)

Letters(layout) == {layout[k] : k \in 1..Len(layout)}

(* a call with its arguments, on a Complex frame whose header is whole *)
ComplexCall ==
    /\ given.kind = "complex"
    /\ given.cut = 0
    /\ ~ HapDecodeBadArguments(arg)

(* the compressor table and the size table are there, once each, and say  *)
(* what the chunks are                                                     *)
ValidTables ==
    /\ ComplexCall
    /\ Letters(given.layout) \in {{"C", "S"}, {"C", "S", "O"}}
    /\ given.compressors = Len(given.chunks)
    /\ given.sizes = Len(given.chunks)
    /\ given.bump = 0

(* the offset table, if there, says where the chunks are *)
ValidOffsets ==
    \/ "O" \notin Letters(given.layout) /\ given.mode # "reversed"
    \/ "O" \in Letters(given.layout) /\ given.mode \in {"contiguous", "reversed"}

(* C4: HapDecode, on a Complex frame whose chunks stand for more bytes    *)
(* than the output buffer has, returns Buffer_Too_Small, has not called   *)
(* the callback and has changed no byte of memory.                         *)
UndersizedDestination ==
    (/\ pc # "decode"
     /\ ValidTables /\ ValidOffsets
     /\ given.chunks # <<>>
     /\ \A i \in 1..Len(given.chunks) : given.chunks[i] # "badlen"
     /\ arg.malloc
     /\ ChunkTotal(given.chunks) > arg.outputBufferBytes)
    => /\ pc = "returned"
       /\ ret = "HapResult_Buffer_Too_Small"
       /\ dispatched = 0
       /\ mem = mem0

UndersizedDestinationWitness ==
    /\ pc = "returned"
    /\ ValidTables /\ ValidOffsets
    /\ given.chunks = <<"raw2", "snappy">>
    /\ arg.outputBufferBytes = ChunkTotal(given.chunks) - 1
    /\ ret = "HapResult_Buffer_Too_Small"
    /\ dispatched = 0

(* C5: HapDecode, on a Complex frame with a compressor table of N entries *)
(* and a size table of M entries, M # N, returns Bad_Frame and builds no  *)
(* chunk descriptors.                                                      *)
ChunkCountsAgree ==
    (/\ pc # "decode"
     /\ ComplexCall
     /\ {"C", "S"} \subseteq Letters(given.layout)
     /\ given.compressors # given.sizes)
    => /\ pc = "returned"
       /\ ret = "HapResult_Bad_Frame"
       /\ chunk_info = <<>>
       /\ dispatched = 0

(* C7: when HapDecode returns anything but No_Error, its two output       *)
(* parameters hold what they held before the call.                         *)
OutputsOnSuccessOnly ==
    (pc = "returned" /\ given.kind # "none" /\ ret # "HapResult_No_Error")
    => /\ outputBufferBytesUsed = Untouched
       /\ outputBufferTextureFormat = "untouched"

(* the header of the top-level section of the call's frame *)
TopHeader == hap_read_section_header(mem0, 0, U32(arg.inputBufferBytes))

(* C8: HapDecode, given its arguments and a frame whose top-level header  *)
(* parses, returns Bad_Frame and changes no byte of memory when the low   *)
(* nibble of the type byte is no texture format's code or the high nibble *)
(* is none of None, Snappy and Complex.                                    *)
UnknownCodesRejected ==
    (/\ pc # "decode"
     /\ given.kind # "none"
     /\ ~ HapDecodeBadArguments(arg)
     /\ ~ TopHeader.crash
     /\ TopHeader.result = "HapResult_No_Error"
     /\ \/ hap_bottom_4_bits(mem0[4])
              \notin {kHapFormatRGBDXT1, kHapFormatRGBADXT5, kHapFormatYCoCgDXT5}
        \/ hap_top_4_bits(mem0[4])
              \notin {kHapCompressorNone, kHapCompressorSnappy, kHapCompressorComplex})
    => /\ pc = "returned"
       /\ ret = "HapResult_Bad_Frame"
       /\ mem = mem0

UnknownCodesRejectedWitness ==
    /\ pc = "returned"
    /\ given.kind = "plain"
    /\ given.declared = 0
    /\ given.capacity >= Len(given.payload)
    /\ hap_bottom_4_bits(mem0[4]) = kHapFormatYCoCgDXT5
    /\ hap_top_4_bits(mem0[4]) = 13
    /\ ret = "HapResult_Bad_Frame"

(* the frame of the call with an offset table added that states where the *)
(* chunks lie, one after the other                                         *)
WithOffsetTable == [given EXCEPT !.layout = Append(@, "O"), !.mode = "contiguous"]

(* C10: HapDecode, on a Complex frame with no offset table, ends as on    *)
(* the frame with the offset table that gives each chunk the sum of the   *)
(* sizes of the chunks before it: the same status, the same bytes         *)
(* reported, the same output buffer.                                       *)
MissingOffsetTable ==
    (/\ pc \in {"returned", "crashed"}
     /\ ValidTables
     /\ "O" \notin Letters(given.layout)
     /\ given.mode # "reversed")
    => \E r \in {HapDecodeRun(FrameMemory(WithOffsetTable),
                              FrameArguments(WithOffsetTable),
                              "untouched", Untouched)} :
          /\ pc = "crashed" <=> r.kind = "crash"
          /\ pc = "returned"
             => /\ ret = r.result
                /\ outputBufferBytesUsed = r.used
                /\ outputBufferTextureFormat = r.format
                /\ Destination(mem)
                     = Bytes(r.mem, FrameArguments(WithOffsetTable).outputBuffer,
                             arg.outputBufferBytes)

MissingOffsetTableWitness ==
    /\ pc = "returned"
    /\ ValidTables
    /\ given.layout = <<"S", "C">>
    /\ given.chunks = <<"raw2", "snappy">>
    /\ dispatched = 1
    /\ ret = "HapResult_No_Error"
    /\ Destination(mem) = <<1, 2, 7, 7, 7>>

-----------------------------------------------------------------------------
(* The two forms of the section header *)

(* the first three bytes of the buffer are all zero *)
LengthBytesZero == mem[1] = 0 /\ mem[2] = 0 /\ mem[3] = 0

(* C11: hap_read_section_header, on a buffer whose first three bytes are  *)
(* zero, returns Bad_Frame when the buffer has fewer than 8 bytes, and    *)
(* with 8 bytes or more gives the header length 8 and as section length   *)
(* the little-endian 32-bit value of bytes 4..8; on a buffer whose first  *)
(* three bytes are not all zero it gives the header length 4 and as       *)
(* section length their little-endian 24-bit value; the type it gives is  *)
(* the byte at offset 3.                                                   *)
HeaderBoundary ==
    (pc = "header read" /\ arg.inputBufferBytes >= 3)
    => IF LengthBytesZero
       THEN /\ arg.inputBufferBytes < 8 => hdr.result = "HapResult_Bad_Frame"
            /\ arg.inputBufferBytes >= 8
               => /\ hdr.header_length = 8
                  /\ hdr.section_length = [hi |-> mem[7] + 256 * mem[8],
                                           lo |-> mem[5] + 256 * mem[6]]
                  /\ hdr.section_type = mem[4]
       ELSE arg.inputBufferBytes >= 4
            => /\ hdr.header_length = 4
               /\ hdr.section_length.hi * Limb + hdr.section_length.lo
                    = mem[1] + 256 * mem[2] + 65536 * mem[3]
               /\ hdr.section_type = mem[4]

HeaderBoundaryWitness ==
    /\ pc = "header read"
    /\ arg.inputBufferBytes >= 8
    /\ LengthBytesZero
    /\ mem[5] = 1
    /\ hdr.result = "HapResult_No_Error"
    /\ hdr.header_length = 8
    /\ hdr.section_length = U32(1)

-----------------------------------------------------------------------------
(* The result of a call whose callback has run *)

(* the chunks of the call whose result is not No_Error *)
FailedChunks ==
    {i \in 1..Len(chunk_info) : chunk_info[i].result # "HapResult_No_Error"}

(* C12: when the callback has returned with every chunk visited, HapDecode *)
(* returns No_Error if and only if every chunk's result is No_Error;       *)
(* otherwise it returns the result of the first chunk whose result is not  *)
(* No_Error and leaves *outputBufferBytesUsed alone.  A chunk's result is  *)
(* Bad_Frame when its compressor code is not known or its data is not      *)
(* valid, and Internal_Error only when the decompressor failed otherwise.  *)
FirstErrorReturned ==
    (pc = "returned" /\ dispatched = 1)
    => /\ \A i \in 1..Len(chunk_info) : chunk_info[i].visited
       /\ ret = "HapResult_No_Error" <=> FailedChunks = {}
       /\ FailedChunks # {}
          => /\ \E i \in FailedChunks :
                  /\ \A j \in FailedChunks : i <= j
                  /\ ret = chunk_info[i].result
             /\ outputBufferBytesUsed = Untouched
       /\ \A i \in 1..Len(chunk_info) :
             /\ chunk_info[i].result
                  \in {"HapResult_No_Error", "HapResult_Bad_Frame",
                       "HapResult_Internal_Error"}
             /\ chunk_info[i].compressor \notin {kHapCompressorNone, kHapCompressorSnappy}
                => chunk_info[i].result = "HapResult_Bad_Frame"
             /\ chunk_info[i].compressor = kHapCompressorNone
                => chunk_info[i].result = "HapResult_No_Error"
             /\ (ValidTables /\ ValidOffsets)
                => chunk_info[i].result
                     = IF given.chunks[i] \in {"corrupt", "other"}
                       THEN "HapResult_Bad_Frame"
                       ELSE "HapResult_No_Error"

FirstErrorReturnedWitness ==
    /\ pc = "returned"
    /\ dispatched = 1
    /\ Len(chunk_info) = 2
    /\ chunk_info[1].result = "HapResult_Bad_Frame"
    /\ chunk_info[2].result = "HapResult_Internal_Error"
    /\ ret = "HapResult_Bad_Frame"
    /\ outputBufferBytesUsed = Untouched

-----------------------------------------------------------------------------
(* Where the chunks handed to the callback lie *)

(* the end of the top-level section of the call's frame *)
TopSectionEnd ==
    size_add(TopHeader.header_length, size_of(TopHeader.section_length))

(* C13: every chunk descriptor HapDecode hands to the callback has its     *)
(* input span inside the frame's data, within the input buffer and within  *)
(* the top-level section; and no more descriptors are built than the       *)
(* compressor table, the size table and the offset table have entries.     *)
ChunkSpansInsideInput ==
    dispatched = 1
    => /\ \A i \in 1..Len(chunk_info) :
             /\ chunk_info[i].compressed_chunk_data >= TopHeader.header_length
             /\ chunk_info[i].compressed_chunk_data + chunk_info[i].compressed_chunk_size
                  <= arg.inputBufferBytes
             /\ chunk_info[i].compressed_chunk_data + chunk_info[i].compressed_chunk_size
                  <= TopSectionEnd
       /\ given.kind = "complex"
          => /\ Len(chunk_info) <= given.compressors
             /\ Len(chunk_info) <= given.sizes
             /\ "O" \in Letters(given.layout) => Len(chunk_info) <= Len(given.chunks)

=============================================================================
